---------------------------- MODULE Spec2Model ----------------------------
(***************************************************************************)
(* A model of ppbert: the BERT decoder (src/src/parser.rs), the symbol     *)
(* table (src/src/symtable.rs) and the term model (src/src/bertterm.rs).   *)
(*                                                                         *)
(* A Parser is {contents, pos}.  Every parser method is a pure function of *)
(* (contents, pos); it is modelled as an operator that returns either      *)
(*   [ok |-> TRUE,  pos |-> p', val |-> v]    (Ok(v), cursor moved to p')  *)
(*   [ok |-> FALSE, pos |-> p', err |-> e]    (Err(e), cursor left at p')  *)
(* so that the `?` operator of the source is "IF ~r.ok THEN r ELSE ...".   *)
(* Buffers are TLA+ sequences (1-based); pos is 0-based as in the source.  *)
(*                                                                         *)
(* A PrettyPrinter is {term, indent_width, max_terms_per_line, symtable};  *)
(* its methods write to a formatter, modelled as operators that return the *)
(* bytes written.  Text is a sequence of bytes throughout.                 *)
(***************************************************************************)
EXTENDS Integers, Sequences, FiniteSets

VARIABLES contents, pos, phase, result, strings, curr_offset, handles,
          term, indent_width, max_terms_per_line, out

vars == <<contents, pos, phase, result, strings, curr_offset, handles,
          term, indent_width, max_terms_per_line, out>>

parserVars == <<contents, pos, phase, result>>
symtableVars == <<strings, curr_offset, handles>>
printerVars == <<term, indent_width, max_terms_per_line, out>>

-----------------------------------------------------------------------------
(* Tags of the wire format.                                                *)
BERT_MAGIC_NUMBER == 131
SMALL_INTEGER_EXT == 97
INTEGER_EXT == 98
FLOAT_EXT == 99
ATOM_EXT == 100
SMALL_ATOM_EXT == 115
SMALL_TUPLE_EXT == 104
LARGE_TUPLE_EXT == 105
NIL_EXT == 106
STRING_EXT == 107
LIST_EXT == 108
BINARY_EXT == 109
SMALL_BIG_EXT == 110
LARGE_BIG_EXT == 111
ATOM_UTF8_EXT == 118
SMALL_ATOM_UTF8_EXT == 119
NEW_FLOAT_EXT == 70
MAP_EXT == 116

-----------------------------------------------------------------------------
(* Results and errors.                                                     *)
Ok(p, v) == [ok |-> TRUE, pos |-> p, val |-> v]
Err(p, e) == [ok |-> FALSE, pos |-> p, err |-> e]

(* The BertError constructors the parser builds, each with its offset.     *)
BertErrorAt(kind, offset) == [kind |-> kind, offset |-> offset]
InvalidTagAt(offset, tag) == [kind |-> "InvalidTag", offset |-> offset, tag |-> tag]

(* The BertTerm variants, as the parser constructs them.  A Float is kept  *)
(* as the bytes it was read from (its text, or its eight raw bytes): no    *)
(* property checked here depends on the IEEE value.                        *)
BertNil == [tag |-> "Nil"]
BertInt(n) == [tag |-> "Int", n |-> n]
BertBigInt(n) == [tag |-> "BigInt", n |-> n]
BertOldFloat(text) == [tag |-> "Float", text |-> text]
BertNewFloat(bits) == [tag |-> "Float", bits |-> bits]
BertAtom(s) == [tag |-> "Atom", text |-> s]
BertTuple(ts) == [tag |-> "Tuple", items |-> ts]
BertList(ts) == [tag |-> "List", items |-> ts]
BertMap(ks, vs) == [tag |-> "Map", keys |-> ks, vals |-> vs]
BertString(bs) == [tag |-> "String", bytes |-> bs]
BertBinary(bs) == [tag |-> "Binary", bytes |-> bs]

-----------------------------------------------------------------------------
(* The `?` operator: Err(e) returns at once, Ok(v) goes on with v.         *)
Then(r, K(_)) == IF r.ok THEN K(r) ELSE r

(* Low-level parsing methods.                                              *)
eof(c, p) == p >= Len(c)

peek(c, p) ==
    IF eof(c, p) THEN Err(p, BertErrorAt("EOF", p)) ELSE Ok(p, c[p + 1])

eat_u8(c, p) == Then(peek(c, p), LAMBDA r : Ok(p + 1, r.val))

eat_char(c, p) == eat_u8(c, p)

(* n successive `self.eat_u8()?`: the bytes read, or the first failure.    *)
RECURSIVE EatBytes(_, _, _, _)
EatBytes(c, p, n, acc) ==
    IF n = 0 THEN Ok(p, acc)
    ELSE Then(eat_u8(c, p),
              LAMBDA r : EatBytes(c, r.pos, n - 1, Append(acc, r.val)))

eat_u16_be(c, p) ==
    Then(EatBytes(c, p, 2, <<>>),
         LAMBDA r : Ok(r.pos, r.val[1] * 256 + r.val[2]))

eat_u32_be(c, p) ==
    Then(EatBytes(c, p, 4, <<>>),
         LAMBDA r : Ok(r.pos, r.val[1] * 16777216 + r.val[2] * 65536
                              + r.val[3] * 256 + r.val[4]))

(* The u64 of new_float is only reinterpreted as an f64: it is kept as its *)
(* eight big-endian bytes.                                                 *)
eat_u64_be(c, p) == EatBytes(c, p, 8, <<>>)

-----------------------------------------------------------------------------
(* i32 arithmetic.  `<<` on an i32 discards the bits shifted out of the    *)
(* 32-bit word (only a shift amount >= 32 is an overflow); `+` overflows   *)
(* when the exact sum is not an i32.                                       *)
RECURSIVE Pow2(_)
Pow2(k) == IF k = 0 THEN 1 ELSE 2 * Pow2(k - 1)

I32_MAX == 2147483647
I32_MIN == -I32_MAX - 1

(* (v as i32) << k, for a byte v and 0 < k < 32.                           *)
Shl32(v, k) ==
    LET low == v % Pow2(32 - k)
    IN  IF low >= Pow2(31 - k) THEN (low - Pow2(32 - k)) * Pow2(k)
        ELSE low * Pow2(k)

AddOverflows32(a, b) ==
    \/ a > 0 /\ b > I32_MAX - a
    \/ a < 0 /\ b < I32_MIN - a

(* The sum a + b + c + d of i32 values, left to right.  An overflowing     *)
(* `+` panics in a debug build and wraps in a release build; either way    *)
(* the exact sum is not returned, which the model records as the outcome   *)
(* ArithmeticOverflow.                                                     *)
Sum32(p, q, s1, s2, s3, s4) ==
    IF \/ AddOverflows32(s1, s2)
       \/ AddOverflows32(s1 + s2, s3)
       \/ AddOverflows32(s1 + s2 + s3, s4)
    THEN Err(q, BertErrorAt("ArithmeticOverflow", p))
    ELSE Ok(q, s1 + s2 + s3 + s4)

(* A variant that drops the top bit of the first byte.                     *)
eat_i32_be_masked(c, p) ==
    Then(EatBytes(c, p, 4, <<>>),
         LAMBDA r : Sum32(p, r.pos, Shl32(r.val[1] % 128, 24), Shl32(r.val[2], 16),
                          Shl32(r.val[3], 8), r.val[4]))

eat_i32_be(c, p) ==
    Then(EatBytes(c, p, 4, <<>>),
         LAMBDA r : Sum32(p, r.pos, Shl32(r.val[1], 24), Shl32(r.val[2], 16),
                          Shl32(r.val[3], 8), r.val[4]))

-----------------------------------------------------------------------------
(* u64 values of parse_varint.  A u64 is kept as ten base-128 limbs, least *)
(* significant first; the tenth limb holds bit 63 alone, so that a shift   *)
(* loses exactly the bits a 64-bit word loses.                             *)
U64_LIMBS == 10

U64Zero == [j \in 1..U64_LIMBS |-> 0]

(* x << (7 * k): a shift by whole limbs.                                   *)
Shl7(x, k) ==
    [j \in 1..U64_LIMBS |->
        IF j - k < 1 THEN 0
        ELSE IF j = U64_LIMBS THEN x[j - k] % 2
        ELSE x[j - k]]

RECURSIVE BitOr(_, _)
BitOr(a, b) ==
    IF a = 0 THEN b
    ELSE IF b = 0 THEN a
    ELSE (IF a % 2 = 1 \/ b % 2 = 1 THEN 1 ELSE 0) + 2 * BitOr(a \div 2, b \div 2)

(* x | v, for v < 128.                                                     *)
OrLow7(x, v) == [x EXCEPT ![1] = BitOr(x[1], v)]

(* The capacity of Vec::with_capacity(mem::size_of::<u64>()).              *)
VARINT_CAPACITY == 8

(* The reading loop: the cursor, the counter i and the bytes pushed.       *)
RECURSIVE varint_read(_, _, _, _)
varint_read(c, p, i, bytes) ==
    IF ~eof(c, p) /\ i < VARINT_CAPACITY
    THEN IF c[p + 1] \div 128 = 0
         THEN [pos |-> p + 1, i |-> i, bytes |-> Append(bytes, c[p + 1])]
         ELSE varint_read(c, p + 1, i + 1, Append(bytes, c[p + 1]))
    ELSE [pos |-> p, i |-> i, bytes |-> bytes]

Reverse(s) == [j \in 1..Len(s) |-> s[Len(s) + 1 - j]]

(* for (i, byte) in bytes.iter().rev().enumerate()                         *)
(*     x = (x << 7*i) | (byte & 0x7f)                                      *)
RECURSIVE varint_fold(_, _, _)
varint_fold(rev, i, x) ==
    IF i >= Len(rev) THEN x
    ELSE varint_fold(rev, i + 1, OrLow7(Shl7(x, i), rev[i + 1] % 128))

(* A variant that reports the offset reached instead of the start.         *)
varint_value_reached(p, rd) ==
    IF rd.i >= VARINT_CAPACITY
    THEN Err(rd.pos, BertErrorAt("VarintTooLarge", rd.pos))
    ELSE Ok(rd.pos, varint_fold(Reverse(rd.bytes), 0, U64Zero))

(* if i >= bytes.capacity() { VarintTooLarge(start_pos) } else the fold.   *)
varint_value(p, rd) ==
    IF rd.i >= VARINT_CAPACITY
    THEN Err(rd.pos, BertErrorAt("VarintTooLarge", p))
    ELSE Ok(rd.pos, varint_fold(Reverse(rd.bytes), 0, U64Zero))

parse_varint(c, p) == varint_value(p, varint_read(c, p, 0, <<>>))

-----------------------------------------------------------------------------
(* Text conversions of the standard library and of the encoding crate.     *)

(* str::parse::<f64>: the grammar of f64::from_str,                        *)
(*   Float  ::= Sign? ( 'inf' | 'infinity' | 'nan' | Number )              *)
(*   Number ::= ( Digit+ | Digit+ '.' Digit* | Digit* '.' Digit+ ) Exp?    *)
(*   Exp    ::= 'e' Sign? Digit+                                           *)
(* with 'e', 'inf', 'infinity' and 'nan' in either case.                   *)
IsDigit(b) == b >= 48 /\ b <= 57
IsSign(b) == b = 43 \/ b = 45
ToLower(b) == IF b >= 65 /\ b <= 90 THEN b + 32 ELSE b

(* The first index at or after i that holds no digit.                      *)
RECURSIVE DigitsEnd(_, _)
DigitsEnd(s, i) ==
    IF i <= Len(s) /\ IsDigit(s[i]) THEN DigitsEnd(s, i + 1) ELSE i

ValidExponent(s, i) ==
    /\ ToLower(s[i]) = 101
    /\ LET j == IF i + 1 <= Len(s) /\ IsSign(s[i + 1]) THEN i + 2 ELSE i + 1
       IN  j <= Len(s) /\ DigitsEnd(s, j) = Len(s) + 1

ValidNumber(s) ==
    LET a == DigitsEnd(s, 1)
        hasDot == a <= Len(s) /\ s[a] = 46
        b == IF hasDot THEN DigitsEnd(s, a + 1) ELSE a
        nDigits == IF hasDot THEN (a - 1) + (b - (a + 1)) ELSE a - 1
    IN  /\ nDigits > 0
        /\ b = Len(s) + 1 \/ ValidExponent(s, b)

ValidFloatText(s) ==
    LET body == IF Len(s) > 0 /\ IsSign(s[1]) THEN Tail(s) ELSE s
        low == [j \in 1..Len(body) |-> ToLower(body[j])]
    IN  \/ low = <<105, 110, 102>>
        \/ low = <<105, 110, 102, 105, 110, 105, 116, 121>>
        \/ low = <<110, 97, 110>>
        \/ ValidNumber(body)

(* String::from_utf8: well-formed UTF-8 from index i on.                   *)
IsCont(s, i, lo, hi) == i <= Len(s) /\ s[i] >= lo /\ s[i] <= hi

RECURSIVE ValidUtf8(_, _)
ValidUtf8(s, i) ==
    IF i > Len(s) THEN TRUE
    ELSE LET b == s[i]
         IN  IF b < 128 THEN ValidUtf8(s, i + 1)
             ELSE IF b >= 194 /\ b <= 223
                  THEN IsCont(s, i + 1, 128, 191) /\ ValidUtf8(s, i + 2)
             ELSE IF b >= 224 /\ b <= 239
                  THEN /\ IsCont(s, i + 1, IF b = 224 THEN 160 ELSE 128,
                                           IF b = 237 THEN 159 ELSE 191)
                       /\ IsCont(s, i + 2, 128, 191)
                       /\ ValidUtf8(s, i + 3)
             ELSE IF b >= 240 /\ b <= 244
                  THEN /\ IsCont(s, i + 1, IF b = 240 THEN 144 ELSE 128,
                                           IF b = 244 THEN 143 ELSE 191)
                       /\ IsCont(s, i + 2, 128, 191)
                       /\ IsCont(s, i + 3, 128, 191)
                       /\ ValidUtf8(s, i + 4)
             ELSE FALSE

(* ISO_8859_1.decode: byte b is code point b, held as UTF-8 in a String.   *)
(* Every byte has a code point, so the decoding never fails.               *)
RECURSIVE Latin1Decode(_)
Latin1Decode(bytes) ==
    IF bytes = <<>> THEN <<>>
    ELSE LET b == Head(bytes)
         IN  (IF b < 128 THEN <<b>> ELSE <<192 + (b \div 64), 128 + (b % 64)>>)
             \o Latin1Decode(Tail(bytes))

-----------------------------------------------------------------------------
(* Parsers.                                                                *)
magic_number(c, p) ==
    Then(eat_u8(c, p),
         LAMBDA r : IF r.val # BERT_MAGIC_NUMBER
                    THEN Err(r.pos, BertErrorAt("InvalidMagicNumber", p))
                    ELSE Ok(r.pos, <<>>))

small_integer(c, p) == Then(eat_u8(c, p), LAMBDA r : Ok(r.pos, BertInt(r.val)))

integer(c, p) == Then(eat_i32_be(c, p), LAMBDA r : Ok(r.pos, BertInt(r.val)))

(* while !self.eof() && self.peek()? != 0: the cursor after the text.      *)
RECURSIVE float_text_end(_, _)
float_text_end(c, p) ==
    IF ~eof(c, p) /\ c[p + 1] # 0 THEN float_text_end(c, p + 1) ELSE p

(* while !self.eof() && self.peek()? == 0: the cursor after the padding.   *)
RECURSIVE float_padding_end(_, _)
float_padding_end(c, p) ==
    IF ~eof(c, p) /\ c[p + 1] = 0 THEN float_padding_end(c, p + 1) ELSE p

(* s.parse::<f64>() on the text s = contents[p .. q], the cursor at e.     *)
float_parse(s, p, e) ==
    IF ValidFloatText(s) THEN Ok(e, BertOldFloat(s))
    ELSE Err(e, BertErrorAt("InvalidFloat", p))

float_padding(c, p, q) == float_parse(SubSeq(c, p + 1, q), p, float_padding_end(c, q))

old_float(c, p) == float_padding(c, p, float_text_end(c, p))

new_float(c, p) == Then(eat_u64_be(c, p), LAMBDA r : Ok(r.pos, BertNewFloat(r.val)))

IsAscii(bytes) == \A j \in 1..Len(bytes) : bytes[j] < 128

(* The atom is built from its text: BertTerm::Atom(s).                     *)
atom(c, p, len) ==
    Then(EatBytes(c, p, len, <<>>),
         LAMBDA r : IF IsAscii(r.val) THEN Ok(r.pos, BertAtom(r.val))
                    ELSE Ok(r.pos, BertAtom(Latin1Decode(r.val))))

atom_utf8(c, p, len) ==
    Then(EatBytes(c, p, len, <<>>),
         LAMBDA r : IF ValidUtf8(r.val, 1) THEN Ok(r.pos, BertAtom(r.val))
                    ELSE Err(r.pos, BertErrorAt("InvalidUTF8Atom", p)))

string(c, p) ==
    Then(eat_u16_be(c, p),
         LAMBDA l : Then(EatBytes(c, l.pos, l.val, <<>>),
                         LAMBDA r : Ok(r.pos, BertString(r.val))))

binary(c, p) ==
    Then(eat_u32_be(c, p),
         LAMBDA l : Then(EatBytes(c, l.pos, l.val, <<>>),
                         LAMBDA r : Ok(r.pos, BertBinary(r.val))))

(* A variant that takes the digits most significant first.                 *)
RECURSIVE bigint_digits_be(_, _, _, _, _)
bigint_digits_be(c, p, n, sum, pw) ==
    IF n = 0 THEN Ok(p, sum)
    ELSE Then(eat_u8(c, p),
              LAMBDA d : bigint_digits_be(c, d.pos, n - 1, sum * 256 + d.val, pw))

(* The digit loop of bigint: sum and pos (here pw) after n more digits.    *)
RECURSIVE bigint_digits(_, _, _, _, _)
bigint_digits(c, p, n, sum, pw) ==
    IF n = 0 THEN Ok(p, sum)
    ELSE Then(eat_u8(c, p),
              LAMBDA d : bigint_digits(c, d.pos, n - 1, sum + pw * d.val, pw * 256))

bigint(c, p, len) ==
    Then(eat_u8(c, p),
         LAMBDA sign :
            Then(bigint_digits(c, sign.pos, len, 0, 1),
                 LAMBDA r : Ok(r.pos, BertBigInt(IF sign.val = 1 THEN -r.val
                                                 ELSE r.val))))

RECURSIVE bert_term(_, _)
RECURSIVE terms_loop(_, _, _, _)
RECURSIVE map_loop(_, _, _, _, _)

(* for _ in 0 .. len { terms.push(self.bert_term()?) }                     *)
terms_loop(c, p, n, acc) ==
    IF n = 0 THEN Ok(p, acc)
    ELSE Then(bert_term(c, p),
              LAMBDA r : terms_loop(c, r.pos, n - 1, Append(acc, r.val)))

tuple(c, p, len) ==
    Then(terms_loop(c, p, len, <<>>), LAMBDA r : Ok(r.pos, BertTuple(r.val)))

(* A variant that keeps the tail whatever it is.                           *)
list_tail_kept(terms, tail) == Ok(tail.pos, BertList(Append(terms, tail.val)))

(* match tail { Nil => (), last_term => terms.push(last_term) }            *)
list_tail(terms, tail) ==
    IF tail.val = BertNil THEN Ok(tail.pos, BertList(terms))
    ELSE Ok(tail.pos, BertList(Append(terms, tail.val)))

list(c, p) ==
    Then(eat_u32_be(c, p),
         LAMBDA l :
            Then(terms_loop(c, l.pos, l.val, <<>>),
                 LAMBDA r : Then(bert_term(c, r.pos),
                                 LAMBDA tail : list_tail(r.val, tail))))

map_loop(c, p, n, keys, vals) ==
    IF n = 0 THEN Ok(p, BertMap(keys, vals))
    ELSE Then(bert_term(c, p),
              LAMBDA k :
                 Then(bert_term(c, k.pos),
                      LAMBDA v : map_loop(c, v.pos, n - 1, Append(keys, k.val),
                                          Append(vals, v.val))))

map(c, p) ==
    Then(eat_u32_be(c, p), LAMBDA l : map_loop(c, l.pos, l.val, <<>>, <<>>))

(* The match on the tag byte read at offset; q is the cursor after it.     *)
dispatch(c, offset, q, tag) ==
    CASE tag = SMALL_INTEGER_EXT -> small_integer(c, q)
      [] tag = INTEGER_EXT -> integer(c, q)
      [] tag = FLOAT_EXT -> old_float(c, q)
      [] tag = NEW_FLOAT_EXT -> new_float(c, q)
      [] tag = ATOM_EXT ->
            Then(eat_u16_be(c, q), LAMBDA l : atom(c, l.pos, l.val))
      [] tag = SMALL_ATOM_EXT ->
            Then(eat_u8(c, q), LAMBDA l : atom(c, l.pos, l.val))
      [] tag = ATOM_UTF8_EXT ->
            Then(eat_u16_be(c, q), LAMBDA l : atom_utf8(c, l.pos, l.val))
      [] tag = SMALL_ATOM_UTF8_EXT ->
            Then(eat_u8(c, q), LAMBDA l : atom_utf8(c, l.pos, l.val))
      [] tag = SMALL_TUPLE_EXT ->
            Then(eat_u8(c, q), LAMBDA l : tuple(c, l.pos, l.val))
      [] tag = LARGE_TUPLE_EXT ->
            Then(eat_u32_be(c, q), LAMBDA l : tuple(c, l.pos, l.val))
      [] tag = NIL_EXT -> Ok(q, BertNil)
      [] tag = LIST_EXT -> list(c, q)
      [] tag = STRING_EXT -> string(c, q)
      [] tag = BINARY_EXT -> binary(c, q)
      [] tag = SMALL_BIG_EXT ->
            Then(eat_u8(c, q), LAMBDA l : bigint(c, l.pos, l.val))
      [] tag = LARGE_BIG_EXT ->
            Then(eat_u32_be(c, q), LAMBDA l : bigint(c, l.pos, l.val))
      [] tag = MAP_EXT -> map(c, q)
      [] OTHER -> Err(q, InvalidTagAt(offset, tag))

bert_term(c, p) == Then(eat_u8(c, p), LAMBDA t : dispatch(c, p, t.pos, t.val))

(* A variant that returns the term whatever follows it.                   *)
parse_end_lenient(c, res) == res

(* if self.eof() { Ok(term) } else { Err(ExtraData(self.pos)) }            *)
parse_end(c, res) ==
    IF eof(c, res.pos) THEN res
    ELSE Err(res.pos, BertErrorAt("ExtraData", res.pos))

parse(c, p) ==
    Then(magic_number(c, p),
         LAMBDA m : Then(bert_term(c, m.pos), LAMBDA res : parse_end(c, res)))

(* while !self.eof() { parse_varint; magic_number; bert_term; push }       *)
RECURSIVE bert2_loop(_, _, _)
bert2_loop(c, p, terms) ==
    IF eof(c, p) THEN Ok(p, terms)
    ELSE Then(parse_varint(c, p),
              LAMBDA v :
                 Then(magic_number(c, v.pos),
                      LAMBDA m :
                         Then(bert_term(c, m.pos),
                              LAMBDA t : bert2_loop(c, t.pos, Append(terms, t.val)))))

parse_bert2(c, p) ==
    Then(bert2_loop(c, p, <<>>), LAMBDA r : parse_end(c, r))

-----------------------------------------------------------------------------
(* The symbol table: one arena of bytes (a String) and the write cursor.   *)

(* A variant that returns the handle of an earlier copy of the text.       *)
symtable_add_dedup(strs, off, s) ==
    IF \E o \in 0..(Len(strs) - Len(s)) : SubSeq(strs, o + 1, o + Len(s)) = s
    THEN [ret |-> <<CHOOSE o \in 0..(Len(strs) - Len(s)) :
                        SubSeq(strs, o + 1, o + Len(s)) = s, Len(s)>>,
          strings |-> strs, curr_offset |-> off]
    ELSE [ret |-> <<off, Len(s)>>, strings |-> strs \o s, curr_offset |-> off + Len(s)]

symtable_add(strs, off, s) ==
    [ret |-> <<off, Len(s)>>, strings |-> strs \o s, curr_offset |-> off + Len(s)]

(* A byte index is a char boundary when it is an end of the string or the  *)
(* byte there is not a UTF-8 continuation byte.                            *)
IsCharBoundary(strs, i) ==
    i = 0 \/ i = Len(strs) \/ (i < Len(strs) /\ ~(strs[i + 1] >= 128 /\ strs[i + 1] <= 191))

(* &self.strings[offset .. offset+len]: the slice, or a panic.             *)
symtable_get(strs, offset, len) ==
    IF IsCharBoundary(strs, offset) /\ IsCharBoundary(strs, offset + len)
    THEN [ok |-> TRUE, val |-> SubSeq(strs, offset + 1, offset + len)]
    ELSE [ok |-> FALSE]

-----------------------------------------------------------------------------
(* The pretty printer (src/src/bertterm.rs).                               *)
DEFAULT_INDENT_WIDTH == 2
DEFAULT_MAX_TERMS_PER_LINE == 4

(* The variants the printer reads that the decoder above does not build:   *)
(* an atom is a handle into the symbol table, a float is an f64 (here a    *)
(* multiple of one half, x = halves / 2).                                  *)
BertAtomHandle(offset, length) == [tag |-> "Atom", offset |-> offset, length |-> length]
BertFloat(halves) == [tag |-> "Float", halves |-> halves]

is_basic(t) ==
    CASE t.tag \in {"Int", "BigInt", "Float", "Atom", "String", "Binary", "Nil"} -> TRUE
      [] t.tag \in {"List", "Tuple", "Map"} -> FALSE

(* {} of an integer: its decimal digits, "-" first when negative.  The     *)
(* digits of a negative number are taken without negating it.              *)
RECURSIVE DecimalDigits(_)
DecimalDigits(n) ==
    IF n >= 0
    THEN (IF n < 10 THEN <<48 + n>>
          ELSE Append(DecimalDigits(n \div 10), 48 + (n % 10)))
    ELSE (IF n > -10 THEN <<48 - n>>
          ELSE Append(DecimalDigits((n + ((10 - (n % 10)) % 10)) \div 10),
                      48 + ((10 - (n % 10)) % 10)))

Decimal(n) == IF n < 0 THEN <<45>> \o DecimalDigits(n) ELSE DecimalDigits(n)

(* {} of an f64 that is a multiple of one half: no fraction when whole.    *)
FloatDisplay(halves) ==
    IF halves % 2 = 0 THEN Decimal(halves \div 2)
    ELSE IF halves < 0 THEN <<45>> \o DecimalDigits((-halves) \div 2) \o <<46, 53>>
    ELSE DecimalDigits(halves \div 2) \o <<46, 53>>

is_printable(b) == b >= 32 /\ b <= 126

HexDigit(d) == IF d < 10 THEN 48 + d ELSE 87 + d

(* One byte of a string: itself, or \xNN in lower-case hexadecimal.        *)
write_byte(b) ==
    IF is_printable(b) THEN <<b>>
    ELSE <<92, 120, HexDigit(b \div 16), HexDigit(b % 16)>>

RECURSIVE write_bytes(_)
write_bytes(bytes) ==
    IF bytes = <<>> THEN <<>>
    ELSE write_byte(Head(bytes)) \o write_bytes(Tail(bytes))

write_string(bytes, open, close) == open \o write_bytes(bytes) \o close

(* A variant that takes a collection of max_terms_per_line terms for a     *)
(* large one.                                                              *)
is_small_collection_strict(m, terms) ==
    /\ Len(terms) < m
    /\ \A i \in 1..Len(terms) : is_basic(terms[i])

is_small_collection(m, terms) ==
    /\ Len(terms) <= m
    /\ \A i \in 1..Len(terms) : is_basic(terms[i])

RECURSIVE Spaces(_)
Spaces(n) == IF n = 0 THEN <<>> ELSE <<32>> \o Spaces(n - 1)

indentation(w, depth) == <<10>> \o Spaces(depth * w)

(* let prefix = if multi_line { self.indentation(depth+1) } else { "" }    *)
element_prefix(w, multi_line, depth) ==
    IF multi_line THEN indentation(w, depth + 1) ELSE <<>>

(* write!(f, ...) of a slice of the symbol table; a panic of the slice is  *)
(* marked by -1, which is no byte.                                         *)
write_atom(slice) == IF slice.ok THEN slice.val ELSE <<-1>>

(* The printer writes to f and returns; here each method returns what it   *)
(* wrote.  strs is the symbol table's arena, w the indent width, m the     *)
(* maximum of terms per line.                                              *)
RECURSIVE write_term(_, _, _, _, _)
RECURSIVE write_items(_, _, _, _, _, _, _)
RECURSIVE write_pairs(_, _, _, _, _, _, _, _)

(* The loop of write_collection from element i on: comma, prefix, term.    *)
write_items(strs, w, m, terms, i, depth, prefix) ==
    IF i > Len(terms) THEN <<>>
    ELSE (IF i = 1 THEN <<>> ELSE <<44, 32>>)
         \o prefix
         \o write_term(strs, w, m, terms[i], depth + 1)
         \o write_items(strs, w, m, terms, i + 1, depth, prefix)

write_collection_as(strs, w, m, terms, depth, open, close, multi_line) ==
    <<open>>
    \o write_items(strs, w, m, terms, 1, depth, element_prefix(w, multi_line, depth))
    \o (IF multi_line THEN indentation(w, depth) ELSE <<>>)
    \o <<close>>

write_collection(strs, w, m, terms, depth, open, close) ==
    write_collection_as(strs, w, m, terms, depth, open, close,
                        ~is_small_collection(m, terms))

(* The loop of write_map from pair i on.                                   *)
write_pairs(strs, w, m, keys, vals, i, depth, prefix) ==
    IF i > Len(keys) THEN <<>>
    ELSE (IF i = 1 THEN <<>> ELSE <<44, 32>>)
         \o prefix
         \o write_term(strs, w, m, keys[i], depth + 1)
         \o <<32, 61, 62, 32>>
         \o write_term(strs, w, m, vals[i], depth + 1)
         \o write_pairs(strs, w, m, keys, vals, i + 1, depth, prefix)

write_map_as(strs, w, m, keys, vals, depth, multi_line) ==
    <<35, 123>>
    \o write_pairs(strs, w, m, keys, vals, 1, depth, element_prefix(w, multi_line, depth))
    \o (IF multi_line THEN indentation(w, depth) ELSE <<>>)
    \o <<125>>

write_map(strs, w, m, keys, vals, depth) ==
    write_map_as(strs, w, m, keys, vals, depth,
                 ~is_small_collection(m, keys) \/ ~is_small_collection(m, vals))

write_term(strs, w, m, t, depth) ==
    CASE t.tag = "Nil" -> <<91, 93>>
      [] t.tag = "Int" -> Decimal(t.n)
      [] t.tag = "BigInt" -> Decimal(t.n)
      [] t.tag = "Float" -> FloatDisplay(t.halves)
      [] t.tag = "Atom" -> write_atom(symtable_get(strs, t.offset, t.length))
      [] t.tag = "String" -> write_string(t.bytes, <<34>>, <<34>>)
      [] t.tag = "Binary" -> write_string(t.bytes, <<60, 60, 34>>, <<34, 62, 62>>)
      [] t.tag = "List" -> write_collection(strs, w, m, t.items, depth, 91, 93)
      [] t.tag = "Tuple" -> write_collection(strs, w, m, t.items, depth, 123, 125)
      [] t.tag = "Map" -> write_map(strs, w, m, t.keys, t.vals, depth)

(* Display::fmt: the whole term at depth 0.                                *)
fmt(strs, w, m, t) == write_term(strs, w, m, t, 0)

-----------------------------------------------------------------------------
(* Bounds of the model.                                                    *)
MaxBody == 4
MaxRun == 7
MaxAdds == 3
MaxTextLen == 2

Frame(pre, alpha) == [pre |-> pre, alpha |-> alpha]

Zeros3 == <<0, 0, 0>>

(* One frame per tag, so that every payload shape is reached complete,     *)
(* truncated and with trailing bytes.                                      *)
TermFrames ==
    { Frame(<<>>, {1, 2, SMALL_INTEGER_EXT, NIL_EXT, BERT_MAGIC_NUMBER}),
      Frame(<<BERT_MAGIC_NUMBER, SMALL_INTEGER_EXT>>, {0, 1, 255}),
      Frame(<<BERT_MAGIC_NUMBER, INTEGER_EXT>>, {0, 1, 127, 128, 255}),
      Frame(<<BERT_MAGIC_NUMBER, FLOAT_EXT>>, {0, 46, 49, 101}),
      Frame(<<BERT_MAGIC_NUMBER, NEW_FLOAT_EXT, 0, 0, 0, 0>>, {0, 1, 64}),
      Frame(<<BERT_MAGIC_NUMBER, ATOM_EXT, 0>>, {0, 1, 2, 107, 111, 233}),
      Frame(<<BERT_MAGIC_NUMBER, SMALL_ATOM_EXT>>, {0, 1, 2, 107, 111, 233}),
      Frame(<<BERT_MAGIC_NUMBER, ATOM_UTF8_EXT, 0>>, {0, 1, 2, 111, 169, 195}),
      Frame(<<BERT_MAGIC_NUMBER, SMALL_ATOM_UTF8_EXT>>, {0, 1, 2, 111, 169, 195}),
      Frame(<<BERT_MAGIC_NUMBER, SMALL_TUPLE_EXT>>,
            {0, 1, 2, SMALL_INTEGER_EXT, NIL_EXT}),
      Frame(<<BERT_MAGIC_NUMBER, LARGE_TUPLE_EXT>> \o Zeros3,
            {0, 1, 2, SMALL_INTEGER_EXT, NIL_EXT}),
      Frame(<<BERT_MAGIC_NUMBER, LIST_EXT>> \o Zeros3,
            {0, 1, 2, SMALL_INTEGER_EXT, NIL_EXT, SMALL_ATOM_EXT}),
      Frame(<<BERT_MAGIC_NUMBER, LIST_EXT>> \o Zeros3 \o <<1>>,
            {1, 111, SMALL_INTEGER_EXT, NIL_EXT, SMALL_ATOM_EXT}),
      Frame(<<BERT_MAGIC_NUMBER, STRING_EXT, 0>>, {0, 1, 2, 65}),
      Frame(<<BERT_MAGIC_NUMBER, BINARY_EXT>> \o Zeros3, {0, 1, 2, 65}),
      Frame(<<BERT_MAGIC_NUMBER, SMALL_BIG_EXT>>, {0, 1, 2, 255}),
      Frame(<<BERT_MAGIC_NUMBER, SMALL_BIG_EXT, 3>>, {0, 1, 2, 255}),
      Frame(<<BERT_MAGIC_NUMBER, LARGE_BIG_EXT>> \o Zeros3, {0, 1, 2, 255}),
      Frame(<<BERT_MAGIC_NUMBER, MAP_EXT>> \o Zeros3,
            {0, 1, SMALL_INTEGER_EXT, NIL_EXT}),
      Frame(<<BERT_MAGIC_NUMBER, SMALL_TUPLE_EXT, 1, LIST_EXT>> \o Zeros3,
            {0, 1, SMALL_INTEGER_EXT, NIL_EXT}),
      Frame(<<2, BERT_MAGIC_NUMBER, NIL_EXT>>, {1, 2, NIL_EXT, BERT_MAGIC_NUMBER}) }

(* k bytes 0xFF: k varint bytes with the continuation bit set.             *)
Run(k) == [j \in 1..k |-> 255]

(* Varints of every length up to and past the 8-byte budget, at the start  *)
(* of the buffer and after a first record.                                 *)
VarintFrames ==
    { Frame(head \o Run(k), {1, 2, 127, 128, 172}) :
        head \in {<<>>, <<2, BERT_MAGIC_NUMBER, NIL_EXT>>}, k \in 0..MaxRun }

Frames == TermFrames \cup VarintFrames

(* The buffers of a frame: its prefix, then at most MaxBody bytes of its   *)
(* alphabet.                                                               *)
IsInput(c) ==
    \E f \in Frames : \E k \in 0..MaxBody : \E b \in [1..k -> f.alpha] :
        c = f.pre \o b

(* The texts added to the symbol table: "o" (one byte), e-acute (two       *)
(* bytes) and their concatenations of at most n characters, "" included.   *)
Chars == {<<111>>, <<195, 169>>}

RECURSIVE Texts(_)
Texts(n) ==
    IF n = 0 THEN {<<>>}
    ELSE Texts(n - 1) \cup {t \o ch : t \in Texts(n - 1), ch \in Chars}

-----------------------------------------------------------------------------
(* The state machine.  A decode session is a Parser (contents, pos) built  *)
(* by Parser::new on a buffer, on which one entry point is then called;    *)
(* result is what the call returned.  The symbol table is (strings,        *)
(* curr_offset); handles records what each add returned and for which      *)
(* text.                                                                   *)
NoResult == [ok |-> FALSE, pos |-> 0, err |-> BertErrorAt("None", 0)]

(* No pretty printer has been built.                                       *)
NoPrinter ==
    /\ term = BertNil
    /\ indent_width = DEFAULT_INDENT_WIDTH
    /\ max_terms_per_line = DEFAULT_MAX_TERMS_PER_LINE
    /\ out = <<>>

(* Parser::new(contents) and Symtable::new().                              *)
Init ==
    /\ IsInput(contents)
    /\ pos = 0
    /\ phase = "new"
    /\ result = NoResult
    /\ strings = <<>>
    /\ curr_offset = 0
    /\ handles = <<>>
    /\ NoPrinter

Parse ==
    /\ phase = "new"
    /\ result' = parse(contents, pos)
    /\ pos' = result'.pos
    /\ phase' = "parse"
    /\ UNCHANGED <<contents, symtableVars, printerVars>>

ParseBert2 ==
    /\ phase = "new"
    /\ result' = parse_bert2(contents, pos)
    /\ pos' = result'.pos
    /\ phase' = "parse_bert2"
    /\ UNCHANGED <<contents, symtableVars, printerVars>>

ParseVarint ==
    /\ phase = "new"
    /\ result' = parse_varint(contents, pos)
    /\ pos' = result'.pos
    /\ phase' = "parse_varint"
    /\ UNCHANGED <<contents, symtableVars, printerVars>>

Next == Parse \/ ParseBert2 \/ ParseVarint

Spec == Init /\ [][Next]_vars

(* The symbol table alone: any sequence of adds.                           *)
InitSymtable ==
    /\ contents = <<>>
    /\ pos = 0
    /\ phase = "new"
    /\ result = NoResult
    /\ strings = <<>>
    /\ curr_offset = 0
    /\ handles = <<>>
    /\ NoPrinter

Add(s) ==
    /\ Len(handles) < MaxAdds
    /\ LET a == symtable_add(strings, curr_offset, s)
       IN  /\ strings' = a.strings
           /\ curr_offset' = a.curr_offset
           /\ handles' = Append(handles, [offset |-> a.ret[1], length |-> a.ret[2], text |-> s])
    /\ UNCHANGED <<parserVars, printerVars>>

NextSymtable == \E s \in Texts(MaxTextLen) : Add(s)

SpecSymtable == InitSymtable /\ [][NextSymtable]_vars

-----------------------------------------------------------------------------
(* The pretty printer alone.  The symbol table holds the atoms "o e-acute" *)
(* and "\n" (an atom may hold any character), added in that order.  The    *)
(* terms printed are drawn from: the basic terms; Tuples and Lists of up   *)
(* to MaxItems basic terms; Tuples and Lists of up to MaxNest terms that   *)
(* are themselves collections; and those wrapped once more.                *)
MaxItems == 5
MaxNest == 2

AtomTexts == << <<111, 195, 169>>, <<10>> >>

AtomHandles == {BertAtomHandle(0, 3), BertAtomHandle(3, 1)}

BasicTerms ==
    {BertNil, BertInt(-12), BertInt(I32_MIN), BertBigInt(300), BertFloat(-3),
     BertFloat(4), BertString(<<111, 10>>), BertBinary(<<255>>)} \cup AtomHandles

(* The elements of the flat collections.                                   *)
FlatItems == {BertInt(7), BertAtomHandle(3, 1)}

SeqsUpTo(S, n) == UNION {[1..k -> S] : k \in 0..n}

Collections(seqs) == {BertTuple(ts) : ts \in seqs} \cup {BertList(ts) : ts \in seqs}

FlatTerms ==
    Collections(SeqsUpTo(FlatItems, MaxItems) \cup {<<b>> : b \in BasicTerms})

FullList == BertList([i \in 1..MaxItems |-> BertInt(7)])

(* The elements of the nested collections.                                 *)
NestedItems ==
    {BertInt(7), BertList(<<>>), BertTuple(<<BertInt(7), BertInt(-12)>>), FullList,
     BertMap(<<BertAtomHandle(0, 3)>>, <<BertList(<<BertInt(7)>>)>>)}

NestedTerms == Collections(SeqsUpTo(NestedItems, MaxNest) \ {<<>>})

DeepTerms ==
    {BertList(<<t>>) : t \in NestedTerms}
    \cup {BertMap(<<BertInt(7)>>, <<t>>) : t \in NestedTerms}

PrintedTerms == BasicTerms \cup FlatTerms \cup NestedTerms \cup DeepTerms

IndentWidths == {0, DEFAULT_INDENT_WIDTH, 3}
MaxTermsChoices == {0, 1, DEFAULT_MAX_TERMS_PER_LINE}

(* PrettyPrinter::new(term, indent_width, max_terms_per_line, symtable)    *)
(* over the table left by the two adds; nothing is written yet.            *)
InitPrinter ==
    /\ contents = <<>>
    /\ pos = 0
    /\ phase = "new"
    /\ result = NoResult
    /\ strings = AtomTexts[1] \o AtomTexts[2]
    /\ curr_offset = Len(AtomTexts[1]) + Len(AtomTexts[2])
    /\ handles = <<[offset |-> 0, length |-> 3, text |-> AtomTexts[1]],
                   [offset |-> 3, length |-> 1, text |-> AtomTexts[2]]>>
    /\ term \in PrintedTerms
    /\ indent_width \in IndentWidths
    /\ max_terms_per_line \in MaxTermsChoices
    /\ out = <<>>

(* write!(f, "{}", printer): Display::fmt appends the rendering to f.      *)
Fmt ==
    /\ phase = "new"
    /\ out' = out \o fmt(strings, indent_width, max_terms_per_line, term)
    /\ phase' = "fmt"
    /\ UNCHANGED <<contents, pos, result, symtableVars,
                   term, indent_width, max_terms_per_line>>

NextPrinter == Fmt

SpecPrinter == InitPrinter /\ [][NextPrinter]_vars

-----------------------------------------------------------------------------
(* Properties.                                                             *)

Front(c) == SubSeq(c, 1, Len(c) - 1)

IsEOF(r) == ~r.ok /\ r.err.kind = "EOF"

(* C1: for every buffer on which parse() succeeds, parse() on the buffer   *)
(* with its last byte removed fails with EOF, for every tag, FLOAT_EXT     *)
(* included.                                                               *)
C1_TruncationIsEOF ==
    phase = "parse" /\ result.ok => IsEOF(parse(Front(contents), 0))

(* The same with the legacy float left out: every other payload has a      *)
(* length fixed by its tag or its prefix.                                  *)
HasTag(c, tag) == \E j \in 1..Len(c) : c[j] = tag

C1_TruncationIsEOF_NoOldFloat ==
    phase = "parse" /\ result.ok /\ ~HasTag(contents, FLOAT_EXT)
        => IsEOF(parse(Front(contents), 0))

(* The index of the first byte of c with the high bit clear, 0 if none.    *)
RECURSIVE FirstClear(_, _)
FirstClear(c, j) ==
    IF j > Len(c) THEN 0
    ELSE IF c[j] < 128 THEN j
    ELSE FirstClear(c, j + 1)

IsTerminatedVarint(c) == FirstClear(c, 1) >= 1 /\ FirstClear(c, 1) <= 8

(* The sum over i of (b[i] & 0x7f) * 128^i, as base-128 limbs.             *)
VarintSum(c) ==
    [j \in 1..U64_LIMBS |-> IF j <= FirstClear(c, 1) THEN c[j] % 128 ELSE 0]

(* The u64 of a number below 128^4.                                        *)
U64OfNat(n) ==
    [j \in 1..U64_LIMBS |->
        CASE j = 1 -> n % 128
          [] j = 2 -> (n \div 128) % 128
          [] j = 3 -> (n \div 16384) % 128
          [] j = 4 -> (n \div 2097152) % 128
          [] OTHER -> 0]

(* C2: a terminated varint of n <= 8 bytes decodes to the sum over i of    *)
(* (b[i] & 0x7f) * 128^i; [1] gives 1 and [0xAC, 0x02] gives 300.          *)
C2_VarintValue ==
    phase = "parse_varint" /\ IsTerminatedVarint(contents)
        => /\ result.ok
           /\ result.val = VarintSum(contents)
           /\ contents = <<1>> => result.val = U64OfNat(1)
           /\ contents = <<172, 2>> => result.val = U64OfNat(300)

(* The part of C2 the code meets: varints of one or two bytes.             *)
C2_VarintValue_UpToTwoBytes ==
    phase = "parse_varint" /\ IsTerminatedVarint(contents)
                           /\ FirstClear(contents, 1) <= 2
        => /\ result.ok
           /\ result.val = VarintSum(contents)
           /\ contents = <<1>> => result.val = U64OfNat(1)
           /\ contents = <<172, 2>> => result.val = U64OfNat(300)

(* The records parse_bert2 goes through from p on: for each, the value of  *)
(* its varint and the bytes its marker and term occupy.                    *)
RecordAt(v, t) == [declared |-> v.val, used |-> t.pos - v.pos]

RECURSIVE Bert2Records(_, _)
Bert2Records(c, p) ==
    IF eof(c, p) \/ ~parse_varint(c, p).ok
       \/ ~magic_number(c, parse_varint(c, p).pos).ok
       \/ ~bert_term(c, parse_varint(c, p).pos + 1).ok
    THEN <<>>
    ELSE <<RecordAt(parse_varint(c, p), bert_term(c, parse_varint(c, p).pos + 1))>>
         \o Bert2Records(c, bert_term(c, parse_varint(c, p).pos + 1).pos)

(* C3: every record parse_bert2 decodes and returns occupies as many bytes *)
(* (marker plus term) as its varint says.                                  *)
C3_RecordLength ==
    phase = "parse_bert2" /\ result.ok
        => \A j \in 1..Len(Bert2Records(contents, 0)) :
              Bert2Records(contents, 0)[j].declared
                  = U64OfNat(Bert2Records(contents, 0)[j].used)

(* The buffer holds the marker, one complete term and at least one more    *)
(* byte.                                                                   *)
TermThenMore(c) ==
    /\ Len(c) >= 1
    /\ c[1] = BERT_MAGIC_NUMBER
    /\ bert_term(c, 1).ok
    /\ bert_term(c, 1).pos < Len(c)

(* C4: parse() returns Ok(term) only with the cursor at the end of the     *)
(* buffer, after the marker and exactly one term; a byte left after the    *)
(* term gives Err(ExtraData(p)), p the offset of that byte, and no term.   *)
C4_ParseConsumesAll ==
    phase = "parse"
        => /\ result.ok
                => /\ pos = Len(contents)
                   /\ contents[1] = BERT_MAGIC_NUMBER
                   /\ bert_term(contents, 1) = result
           /\ TermThenMore(contents)
                => /\ result = Err(bert_term(contents, 1).pos,
                                   BertErrorAt("ExtraData", bert_term(contents, 1).pos))
                   /\ pos = bert_term(contents, 1).pos
                   /\ "val" \notin DOMAIN result

C4_Witness ==
    /\ phase = "parse"
    /\ ~result.ok
    /\ result.err.kind = "ExtraData"
    /\ result.err.offset = 3
    /\ Len(contents) = 5

(* The n bytes from offset s on all have the high bit set.                 *)
AllHigh(c, s, n) == Len(c) >= s + n /\ \A j \in (s + 1)..(s + n) : c[j] >= 128

(* C5: parse_varint fails, as VarintTooLarge(s) with s the starting        *)
(* offset, exactly when the first 8 bytes from s all have the high bit     *)
(* set, and returns Ok when one of the first 8 has it clear.               *)
C5_VarintTooLarge ==
    /\ phase = "parse_varint"
        => /\ AllHigh(contents, 0, 8)
                => result = Err(8, BertErrorAt("VarintTooLarge", 0))
           /\ IsTerminatedVarint(contents) => result.ok
           /\ ~result.ok => AllHigh(contents, 0, 8)
           /\ contents = Run(7) \o <<127>> => result.ok
           /\ contents = Run(7) \o <<128>> => ~result.ok
    /\ phase = "parse_bert2" /\ ~result.ok /\ result.err.kind = "VarintTooLarge"
        => /\ AllHigh(contents, result.err.offset, 8)
           /\ pos = result.err.offset + 8

C5_Witness ==
    /\ phase = "parse_bert2"
    /\ ~result.ok
    /\ result.err.kind = "VarintTooLarge"
    /\ result.err.offset = 3
    /\ pos = 11

(* The atoms of a term, and of the terms of a sequence.                    *)
RECURSIVE AtomsOf(_)
AtomsOfAll(ts) == UNION {AtomsOf(ts[j]) : j \in 1..Len(ts)}

AtomsOf(t) ==
    CASE t.tag = "Atom" -> {t}
      [] t.tag \in {"Tuple", "List"} -> AtomsOfAll(t.items)
      [] t.tag = "Map" -> AtomsOfAll(t.keys) \cup AtomsOfAll(t.vals)
      [] OTHER -> {}

DecodedAtoms ==
    IF phase = "parse" THEN AtomsOf(result.val) ELSE AtomsOfAll(result.val)

(* C6: every atom of a decoded term is a handle {offset, length} into the  *)
(* symbol table, within the written region, so that the lookup of the      *)
(* renderer, Symtable::get(offset, length), does not go out of bounds.     *)
C6_AtomsInterned ==
    phase \in {"parse", "parse_bert2"} /\ result.ok
        => \A a \in DecodedAtoms :
              /\ DOMAIN a = {"tag", "offset", "length"}
              /\ a.offset + a.length <= Len(strings)
              /\ symtable_get(strings, a.offset, a.length).ok

(* The total byte length of the first n texts added.                       *)
RECURSIVE AddedLen(_, _)
AddedLen(hs, n) == IF n = 0 THEN 0 ELSE AddedLen(hs, n - 1) + Len(hs[n].text)

(* C7: after any sequence of adds, every handle returned still resolves to *)
(* its text; its offset is the byte length of all texts added before it    *)
(* and its length the byte length of its text; a non-empty text added      *)
(* twice has two offsets; curr_offset is the length of the arena.          *)
C7_HandlesResolve ==
    /\ curr_offset = Len(strings)
    /\ \A j \in 1..Len(handles) :
          /\ symtable_get(strings, handles[j].offset, handles[j].length)
                = [ok |-> TRUE, val |-> handles[j].text]
          /\ handles[j].offset = AddedLen(handles, j - 1)
          /\ handles[j].length = Len(handles[j].text)
    /\ \A j, k \in 1..Len(handles) :
          j < k /\ handles[j].text = handles[k].text /\ handles[j].text # <<>>
              => handles[j].offset # handles[k].offset

C7_Witness ==
    /\ Len(handles) = 3
    /\ handles[1].text = <<111, 195, 169>>
    /\ handles[2].text = <<195, 169>>
    /\ handles[3].text = <<111, 195, 169>>
    /\ handles[3].offset = 5
    /\ curr_offset = 8

(* The big-endian two's-complement 32-bit value of four bytes.             *)
TwosComplement32(b0, b1, b2, b3) ==
    (IF b0 >= 128 THEN b0 - 256 ELSE b0) * 16777216 + b1 * 65536 + b2 * 256 + b3

(* C8: INTEGER_EXT and four bytes decode to the Int of their big-endian    *)
(* two's-complement value, without overflow, also when the first byte is   *)
(* 0x80 or more; SMALL_INTEGER_EXT and one byte b decode to Int(b).        *)
C8_IntegerExact ==
    phase = "parse" /\ Len(contents) >= 2 /\ contents[1] = BERT_MAGIC_NUMBER
        => /\ contents[2] = INTEGER_EXT /\ Len(contents) = 6
                => result = Ok(6, BertInt(TwosComplement32(contents[3], contents[4],
                                                           contents[5], contents[6])))
           /\ contents[2] = SMALL_INTEGER_EXT /\ Len(contents) = 3
                => /\ result = Ok(3, BertInt(contents[3]))
                   /\ contents[3] >= 0 /\ contents[3] <= 255

C8_Witness ==
    /\ phase = "parse"
    /\ contents = <<BERT_MAGIC_NUMBER, INTEGER_EXT, 128, 0, 0, 1>>
    /\ result.ok
    /\ result.val.n = I32_MIN + 1

(* The sum over i of d[i] * 256^i of the digits d, least significant       *)
(* first.                                                                  *)
RECURSIVE Magnitude(_)
Magnitude(d) == IF d = <<>> THEN 0 ELSE Head(d) + 256 * Magnitude(Tail(d))

(* What a big integer of n digits decodes to when the sign byte is at      *)
(* index h + 1 of c and the buffer ends after the last digit.              *)
BigIntAt(c, h, n) ==
    IF c[h + 1] = 1 THEN -Magnitude(SubSeq(c, h + 2, h + 1 + n))
    ELSE Magnitude(SubSeq(c, h + 2, h + 1 + n))

(* The outcome of parse() on a buffer whose big integer has its h-byte     *)
(* header (marker, tag, length prefix) read, n being the digit count.      *)
BigIntOutcome(c, h, n, r) ==
    IF Len(c) < h + n + 1 THEN r = Err(Len(c), BertErrorAt("EOF", Len(c)))
    ELSE IF Len(c) > h + n + 1
         THEN r = Err(h + n + 1, BertErrorAt("ExtraData", h + n + 1))
    ELSE /\ r.ok /\ r.pos = h + n + 1 /\ r.val.tag = "BigInt"
         /\ c[h + 1] \in {0, 1} => r.val.n = BigIntAt(c, h, n)
         /\ c[h + 1] = 0 => r.val.n >= 0
         /\ c[h + 1] = 1 => r.val.n <= 0

IsSmallBig(c) ==
    Len(c) >= 3 /\ c[1] = BERT_MAGIC_NUMBER /\ c[2] = SMALL_BIG_EXT

IsLargeBig(c) ==
    /\ Len(c) >= 6 /\ c[1] = BERT_MAGIC_NUMBER /\ c[2] = LARGE_BIG_EXT
    /\ SubSeq(c, 3, 5) = Zeros3

(* C9: a big integer of n digits d, after its length prefix, takes one     *)
(* sign byte and then n digit bytes, n + 1 bytes in all, and decodes to    *)
(* the sum over i of d[i] * 256^i, negated when the sign byte is 1 and     *)
(* non-negative when it is 0: digits [2, 1] give 258 and -258.             *)
C9_BigIntValue ==
    phase = "parse"
        => /\ IsSmallBig(contents)
                => BigIntOutcome(contents, 3, contents[3], result)
           /\ IsLargeBig(contents)
                => BigIntOutcome(contents, 6, contents[6], result)
           /\ contents = <<BERT_MAGIC_NUMBER, SMALL_BIG_EXT, 2, 0, 2, 1>>
                => result.val.n = 258
           /\ contents = <<BERT_MAGIC_NUMBER, SMALL_BIG_EXT, 2, 1, 2, 1>>
                => result.val.n = -258

C9_Witness ==
    /\ phase = "parse"
    /\ contents = <<BERT_MAGIC_NUMBER, SMALL_BIG_EXT, 2, 1, 2, 1>>
    /\ result = Ok(6, BertBigInt(-258))

IsListBuffer(c) ==
    /\ Len(c) >= 6 /\ c[1] = BERT_MAGIC_NUMBER /\ c[2] = LIST_EXT
    /\ SubSeq(c, 3, 5) = Zeros3

(* The declared elements of a list buffer, and the tail term after them.   *)
ListElements(c) == terms_loop(c, 6, c[6], <<>>)
ListTail(c) == bert_term(c, ListElements(c).pos)

(* The buffer ends with the tail term.                                     *)
ListComplete(c) ==
    ListElements(c).ok /\ ListTail(c).ok /\ ListTail(c).pos = Len(c)

(* C10: a list takes the declared number of elements and then one tail     *)
(* term; a Nil tail leaves exactly the declared elements in order, any     *)
(* other tail is appended as one more element, so the length is the        *)
(* declared one or one more; a list with no tail term in the input fails.  *)
C10_ListTail ==
    phase = "parse" /\ IsListBuffer(contents)
        => /\ result.ok
                => /\ result.val.tag = "List"
                   /\ ListElements(contents).ok
                   /\ Len(ListElements(contents).val) = contents[6]
                   /\ ListTail(contents).ok
                   /\ ListTail(contents).pos = Len(contents)
                   /\ ListTail(contents).val = BertNil
                        => result.val.items = ListElements(contents).val
                   /\ ListTail(contents).val # BertNil
                        => result.val.items
                              = Append(ListElements(contents).val, ListTail(contents).val)
                   /\ Len(result.val.items) \in {contents[6], contents[6] + 1}
           /\ ListElements(contents).ok /\ ListElements(contents).pos = Len(contents)
                => result = Err(Len(contents), BertErrorAt("EOF", Len(contents)))
           /\ ListComplete(contents) => result.ok

C10_Witness ==
    /\ phase = "parse"
    /\ contents = <<BERT_MAGIC_NUMBER, LIST_EXT, 0, 0, 0, 1, NIL_EXT,
                    SMALL_ATOM_EXT, 1, 111>>
    /\ result = Ok(10, BertList(<<BertNil, BertAtom(<<111>>)>>))

-----------------------------------------------------------------------------
(* The Tuple and List nodes of a term, each with its nesting depth: the    *)
(* elements of a Tuple or List, and the keys and values of a Map, are one  *)
(* level deeper than the collection.                                       *)
IsTupleOrList(t) == t.tag \in {"Tuple", "List"}

Elements(t) ==
    IF IsTupleOrList(t) THEN t.items
    ELSE IF t.tag = "Map" THEN t.keys \o t.vals
    ELSE <<>>

RECURSIVE NodesAt(_, _)
NodesAt(t, d) ==
    (IF IsTupleOrList(t) THEN {<<t, d>>} ELSE {})
    \cup UNION {NodesAt(Elements(t)[i], d + 1) : i \in 1..Len(Elements(t))}

OpenOf(t) == IF t.tag = "List" THEN 91 ELSE 123
CloseOf(t) == IF t.tag = "List" THEN 93 ELSE 125

(* The rendering of element i of node t, which is at depth d.              *)
ElementText(t, i, d) ==
    write_term(strings, indent_width, max_terms_per_line, t.items[i], d + 1)

(* At most max_terms_per_line elements, none a Tuple, List or Map.         *)
FitsOneLine(t) ==
    /\ Len(t.items) <= max_terms_per_line
    /\ \A i \in 1..Len(t.items) : t.items[i].tag \notin {"Tuple", "List", "Map"}

RECURSIVE Blanks(_)
Blanks(n) == IF n <= 0 THEN <<>> ELSE Append(Blanks(n - 1), 32)

(* Elements i.. of t on one line, separated by ", ".                       *)
RECURSIVE InlineFrom(_, _, _)
InlineFrom(t, i, d) ==
    IF i > Len(t.items) THEN <<>>
    ELSE (IF i = 1 THEN <<>> ELSE <<44, 32>>)
         \o ElementText(t, i, d) \o InlineFrom(t, i + 1, d)

(* Elements i.. of t, each preceded by a newline and (d+1)*indent_width    *)
(* spaces; the ", " after an element ends that element's line.             *)
RECURSIVE LinesFrom(_, _, _)
LinesFrom(t, i, d) ==
    IF i > Len(t.items) THEN <<>>
    ELSE (IF i = 1 THEN <<>> ELSE <<44, 32>>)
         \o <<10>> \o Blanks((d + 1) * indent_width)
         \o ElementText(t, i, d) \o LinesFrom(t, i + 1, d)

IsInline(text, t, d) ==
    text = <<OpenOf(t)>> \o InlineFrom(t, 1, d) \o <<CloseOf(t)>>

IsMultiLine(text, t, d) ==
    text = <<OpenOf(t)>> \o LinesFrom(t, 1, d)
           \o <<10>> \o Blanks(d * indent_width) \o <<CloseOf(t)>>

Newlines(text) == Cardinality({i \in 1..Len(text) : text[i] = 10})

RECURSIVE ElementNewlines(_, _, _)
ElementNewlines(t, i, d) ==
    IF i > Len(t.items) THEN 0
    ELSE Newlines(ElementText(t, i, d)) + ElementNewlines(t, i + 1, d)

(* The newlines of text that node t itself emitted.                        *)
OwnNewlines(text, t, d) == Newlines(text) - ElementNewlines(t, 1, d)

LayoutRule(text, t, d) ==
    /\ FitsOneLine(t) <=> IsInline(text, t, d)
    /\ FitsOneLine(t) <=> OwnNewlines(text, t, d) = 0
    /\ ~FitsOneLine(t) <=> IsMultiLine(text, t, d)
    /\ ~FitsOneLine(t) <=> OwnNewlines(text, t, d) = Len(t.items) + 1

(* What the printer writes for node t at depth d; the root's is out.       *)
NodeText(t, d) ==
    IF d = 0 THEN out
    ELSE write_term(strings, indent_width, max_terms_per_line, t, d)

IsIntList(t, n) ==
    /\ t.tag = "List"
    /\ Len(t.items) = n
    /\ \A i \in 1..n : t.items[i].tag = "Int"

(* C11: at every Tuple/List node at depth d, the collection is rendered    *)
(* inline (elements separated by ", ", no newline emitted by the node) if  *)
(* and only if it has at most max_terms_per_line elements and all of them  *)
(* are basic; otherwise every element is preceded by a newline and         *)
(* (d+1)*indent_width spaces and the closing delimiter by a newline and    *)
(* d*indent_width spaces.  A list of exactly max_terms_per_line integers   *)
(* is one line, a list of max_terms_per_line+1 integers is multi-line.     *)
C11_LayoutRule ==
    phase = "fmt" =>
        /\ \A nd \in NodesAt(term, 0) : LayoutRule(NodeText(nd[1], nd[2]), nd[1], nd[2])
        /\ IsIntList(term, max_terms_per_line) => Newlines(out) = 0
        /\ IsIntList(term, max_terms_per_line + 1) =>
               Newlines(out) = max_terms_per_line + 2

(* {[7, 7, 7, 7, 7]} with the defaults: the tuple holds a list, the list   *)
(* one integer too many, so both are multi-line, the list at depth 1.      *)
C11_Witness ==
    /\ phase = "fmt"
    /\ term = BertTuple(<<BertList(<<BertInt(7), BertInt(7), BertInt(7),
                                     BertInt(7), BertInt(7)>>)>>)
    /\ indent_width = 2
    /\ max_terms_per_line = 4
    /\ out = <<123, 10, 32, 32, 91,
               10, 32, 32, 32, 32, 55, 44, 32,
               10, 32, 32, 32, 32, 55, 44, 32,
               10, 32, 32, 32, 32, 55, 44, 32,
               10, 32, 32, 32, 32, 55, 44, 32,
               10, 32, 32, 32, 32, 55,
               10, 32, 32, 93,
               10, 125>>

=============================================================================
